---- MODULE Spec2Model ----
(***************************************************************************)
(* Model of pl_bolts/models/self_supervised/fixmatch/datasets.py:          *)
(* the labeled/unlabeled index split (x_u_split), the view dispatcher      *)
(* (TransformSSL), get_train_dataset and the SSLDataModule life cycle.     *)
(*                                                                         *)
(* Python lists and numpy index arrays are sequences of naturals holding   *)
(* 0-based indices; element j of a Python array a is a[j + 1] here.        *)
(* A call that raises is a record with status "raised" and the exception   *)
(* class in exc; a call that returns has status "returned".                *)
(***************************************************************************)
EXTENDS Integers, Sequences, FiniteSets

VARIABLES dm, prepared, call

vars == <<dm, prepared, call>>

----------------------------------------------------------------------------
(* Bounds of the model.                                                    *)

\* samples per class of the largest label arrays; also the largest
\* per-class budget that is requested
MaxPerClass == 2
\* eval_step ranges over {0, 1, MaxEvalStep}
MaxEvalStep == 3
\* batch_size ranges over {0, 1, MaxBatch}
MaxBatch == 64
\* the random generator is seeded with 0..MaxSeed
MaxSeed == 1
\* mu ranges over 1..MaxMu
MaxMu == 2
\* images handed to a transform are 1..MaxImage
MaxImage == 2

----------------------------------------------------------------------------
(* Program constants.                                                      *)

Cifar10Classes == 10
Cifar100Classes == 100
DefaultMu == 7
DefaultNumLabeled == 4000
DefaultBatchSize == 128
DefaultEvalStep == 1024

SupportedDatasets == {"cifar10", "cifar100"}
\* "svhn" stands for every name that is neither "cifar10" nor "cifar100"
Datasets == SupportedDatasets \cup {"svhn"}
\* "simclr" stands for every mode string the dispatcher does not name
Modes == {"test", "casual", "fixmatch", "comatch", "simclr"}
AcceptedModes == {"fixmatch", "comatch"}

----------------------------------------------------------------------------
(* numpy's global random generator, as a small linear congruential         *)
(* generator: the state after one draw, and a draw from 0..hi.             *)

Lcg(s) == (s * 75 + 74) % 65537

RandomInterval(s, hi) == s % (hi + 1)

Swap(x, a, b) == [x EXCEPT ![a] = x[b], ![b] = x[a]]

\* Statements in sequence: first has run, and its generator state exists,
\* before next is evaluated.
InOrder(first, next) == IF first.rng >= 0 THEN next ELSE first

\* np.random.shuffle: Fisher-Yates over the positions hi down to lo, each
\* position i swapped with a position drawn from 0..i.  The range is
\* walked in two halves, upper half first, so that the generator state is
\* threaded through the swaps in the order the loop makes them.
RECURSIVE ShuffleFrom(_, _, _, _)
ShuffleFrom(x, hi, lo, rng) ==
    IF hi < lo THEN [arr |-> x, rng |-> rng]
    ELSE IF hi = lo
    THEN [arr |-> Swap(x, hi + 1, RandomInterval(rng, hi) + 1), rng |-> Lcg(rng)]
    ELSE LET mid == (hi + lo) \div 2
             upper == ShuffleFrom(x, hi, mid + 1, rng)
         IN  InOrder(upper, ShuffleFrom(upper.arr, mid, lo, upper.rng))

Shuffle(x, rng) == ShuffleFrom(x, Len(x) - 1, 1, rng)

----------------------------------------------------------------------------
(* x_u_split                                                               *)

\* np.array(range(n))
ARange(n) == [j \in 1..n |-> j - 1]

\* the chain closed by an else branch
NumClassesDefault10(dataset) ==
    IF dataset = "cifar100" THEN Cifar100Classes ELSE Cifar10Classes

\* num_classes as bound by the if/elif chain: -1 stands for the name left
\* unbound when neither branch is taken.
NumClasses(dataset) ==
    IF dataset = "cifar10" THEN Cifar10Classes
    ELSE IF dataset = "cifar100" THEN Cifar100Classes
    ELSE -1

\* the quotient rounded up
LabelPerClassCeil(num_labeled, num_classes) ==
    (num_labeled + num_classes - 1) \div num_classes

\* label_per_class = num_labeled // num_classes
LabelPerClass(num_labeled, num_classes) == num_labeled \div num_classes

\* np.where(labels == i)[0]: the indices labelled i, ascending
Where(labels, i) ==
    LET IsClass(j) == labels[j + 1] = i
    IN  SelectSeq(ARange(Len(labels)), IsClass)

\* the same draw with the replace argument left at its default, True:
\* size independent draws from idx
RECURSIVE DrawWithReplacement(_, _, _, _)
DrawWithReplacement(idx, size, acc, rng) ==
    IF size = 0 THEN [ok |-> TRUE, arr |-> acc, rng |-> rng]
    ELSE DrawWithReplacement(idx, size - 1,
             Append(acc, idx[RandomInterval(rng, Len(idx) - 1) + 1]), Lcg(rng))

ChoiceReplace(idx, size, rng) ==
    IF Len(idx) = 0 /\ size > 0
    THEN [ok |-> FALSE, arr |-> <<>>, rng |-> rng]
    ELSE DrawWithReplacement(idx, size, <<>>, rng)

\* np.random.choice(idx, size, False): the first size entries of a random
\* permutation of idx; a ValueError (ok = FALSE) when idx has fewer than
\* size entries.
Choice(idx, size, rng) ==
    IF size > Len(idx)
    THEN [ok |-> FALSE, arr |-> <<>>, rng |-> rng]
    ELSE LET p == Shuffle(idx, rng)
         IN  [ok |-> TRUE, arr |-> SubSeq(p.arr, 1, size), rng |-> p.rng]

\* the loop over the classes lo..hi-1 of range(num_classes), extending
\* labeled_idx class by class; it stops at the first class whose draw
\* raises.  The range is walked in two halves, lower half first.
RECURSIVE SampleClasses(_, _, _, _, _)
SampleClasses(labels, label_per_class, lo, hi, rng) ==
    IF hi <= lo THEN [ok |-> TRUE, arr |-> <<>>, rng |-> rng]
    ELSE IF hi = lo + 1 THEN Choice(Where(labels, lo), label_per_class, rng)
    ELSE LET mid == (hi + lo) \div 2
             lower == SampleClasses(labels, label_per_class, lo, mid, rng)
             upper == SampleClasses(labels, label_per_class, mid, hi, lower.rng)
         IN  IF ~lower.ok THEN lower
             ELSE IF ~upper.ok THEN upper
             ELSE InOrder(upper, [ok |-> TRUE, arr |-> lower.arr \o upper.arr,
                                  rng |-> upper.rng])

\* the assertion compiled away
AssertSkipped(labeled_idx, num_labeled) == TRUE

\* assert len(labeled_idx) == num_labeled
AssertHolds(labeled_idx, num_labeled) == Len(labeled_idx) = num_labeled

\* the quotient rounded down
NumExpandXFloor(batch_size, eval_step, num_labeled) ==
    (batch_size * eval_step) \div num_labeled

\* math.ceil(batch_size * eval_step / num_labeled), for num_labeled > 0 and
\* a product >= 0; the float quotient is exact enough for the ceiling to be
\* the integer ceiling at every magnitude the model reaches
NumExpandX(batch_size, eval_step, num_labeled) ==
    (batch_size * eval_step + num_labeled - 1) \div num_labeled

\* np.hstack([labeled_idx for _ in range(n)]), n >= 1: n copies in a row
HStack(labeled_idx, n) ==
    [p \in 1..(n * Len(labeled_idx)) |-> labeled_idx[((p - 1) % Len(labeled_idx)) + 1]]

\* the range started at 1
UnlabeledIdxFromOne(labels) == [j \in 1..Len(labels) |-> j]

\* unlabeled_idx = np.array(range(len(labels)))
UnlabeledIdx(labels) == ARange(Len(labels))

XRaised(exc, sampled, sample) ==
    [status |-> "raised", exc |-> exc, sampled |-> sampled, sample |-> sample,
     replicated |-> FALSE, num_expand_x |-> 0,
     labeled_idx |-> <<>>, unlabeled_idx |-> <<>>]

XReturned(sample, replicated, n, labeled_idx, unlabeled_idx) ==
    [status |-> "returned", exc |-> "", sampled |-> TRUE, sample |-> sample,
     replicated |-> replicated, num_expand_x |-> n,
     labeled_idx |-> labeled_idx, unlabeled_idx |-> unlabeled_idx]

\* sampled: the loop over the classes completed; sample: labeled_idx as the
\* assertion sees it, before replication and shuffling.
x_u_split(dataset, labels, num_labeled, eval_step, expand_labels, batch_size, rng) ==
    LET num_classes == NumClasses(dataset)
    IN
    IF num_classes < 0 THEN XRaised("UnboundLocalError", FALSE, <<>>)
    ELSE
    LET s == SampleClasses(labels, LabelPerClass(num_labeled, num_classes),
                           0, num_classes, rng)
    IN
    IF ~s.ok THEN XRaised("ValueError", FALSE, <<>>)
    ELSE IF ~AssertHolds(s.arr, num_labeled)
    THEN XRaised("AssertionError", TRUE, s.arr)
    ELSE IF expand_labels \/ num_labeled < batch_size
    THEN IF num_labeled = 0 THEN XRaised("ZeroDivisionError", TRUE, s.arr)
         ELSE LET n == NumExpandX(batch_size, eval_step, num_labeled)
              IN  IF n <= 0 THEN XRaised("ValueError", TRUE, s.arr)
                  ELSE XReturned(s.arr, TRUE, n,
                           Shuffle(HStack(s.arr, n), s.rng).arr,
                           UnlabeledIdx(labels))
    ELSE XReturned(s.arr, FALSE, 0, Shuffle(s.arr, s.rng).arr,
                   UnlabeledIdx(labels))

----------------------------------------------------------------------------
(* TransformSSL                                                            *)

\* What an instance can look up on itself when __init__ reaches its lookup
\* of DATASET_NORMS: the class body defines the two methods, and __init__
\* has by then assigned five fields.
TransformSSLAttrs ==
    {"__init__", "__call__", "test_transforms", "weak", "strong1", "strong2", "mode"}

\* TransformSSL(dataset, mode): self.DATASET_NORMS is looked up on the
\* instance before it is indexed by the dataset name.
TransformSSL_init(dataset, mode) ==
    IF "DATASET_NORMS" \notin TransformSSLAttrs
    THEN [ok |-> FALSE, exc |-> "AttributeError", mode |-> mode, dataset |-> dataset]
    ELSE IF dataset \notin SupportedDatasets
    THEN [ok |-> FALSE, exc |-> "KeyError", mode |-> mode, dataset |-> dataset]
    ELSE [ok |-> TRUE, exc |-> "", mode |-> mode, dataset |-> dataset]

\* one normalized view of x: self.normalize(aug(x))
View(aug, x) == [aug |-> aug, of |-> x, normalized |-> TRUE]

\* the dispatcher without its "fixmatch" branch
TransformSSL_call_NoFixmatch(mode, x) ==
    IF mode = "test"
    THEN [tuple |-> FALSE, views |-> <<View("test_transforms", x)>>]
    ELSE IF mode = "casual"
    THEN [tuple |-> FALSE, views |-> <<View("weak", x)>>]
    ELSE [tuple |-> TRUE,
          views |-> <<View("weak", x), View("strong1", x), View("strong2", x)>>]

\* TransformSSL.__call__ on an instance whose mode field is mode; tuple
\* tells a returned tuple of views from a single returned view.
TransformSSL_call(mode, x) ==
    IF mode = "test"
    THEN [tuple |-> FALSE, views |-> <<View("test_transforms", x)>>]
    ELSE IF mode = "casual"
    THEN [tuple |-> FALSE, views |-> <<View("weak", x)>>]
    ELSE IF mode = "fixmatch"
    THEN [tuple |-> TRUE, views |-> <<View("weak", x), View("strong1", x)>>]
    ELSE [tuple |-> TRUE,
          views |-> <<View("weak", x), View("strong1", x), View("strong2", x)>>]

----------------------------------------------------------------------------
(* Datasets                                                                *)

Unset == [set |-> FALSE]

\* The targets of the torchvision training set, scaled down: MaxPerClass
\* samples of every class, the classes interleaved.
BaseTargets(dataset) ==
    [j \in 1..(NumClasses(dataset) * MaxPerClass) |-> (j - 1) % NumClasses(dataset)]

\* MAP_DATASET[dataset](root, train=train, transform=transform)
BaseDataset(dataset, train, transform) ==
    [set |-> TRUE, cls |-> dataset, train |-> train, transform |-> transform]

\* MAP_SSL_DATASET[dataset](root, indexs, train=True, transform=transform):
\* the targets are narrowed to targets[indexs]
SSLDataset(dataset, indexs, targets, transform) ==
    [set |-> TRUE, cls |-> dataset, train |-> TRUE, indexs |-> indexs,
     targets |-> [p \in 1..Len(indexs) |-> targets[indexs[p] + 1]],
     transform |-> transform]

NoSplit == XRaised("", FALSE, <<>>)

GRaised(exc, loaded, split) ==
    [status |-> "raised", exc |-> exc, loaded |-> loaded, split |-> split,
     labeled |-> Unset, unlabeled |-> Unset]

\* loaded: the base dataset was loaded; split: what x_u_split did, NoSplit
\* when it was not called.
get_train_dataset(dataset, mode, num_labeled, batch_size, eval_step, expand_labels, rng) ==
    IF mode \notin AcceptedModes THEN GRaised("AssertionError", FALSE, NoSplit)
    ELSE IF dataset \notin SupportedDatasets THEN GRaised("KeyError", FALSE, NoSplit)
    ELSE
    LET targets == BaseTargets(dataset)
        split == x_u_split(dataset, targets, num_labeled, eval_step,
                           expand_labels, batch_size, rng)
        tl == TransformSSL_init(dataset, "casual")
        tu == TransformSSL_init(dataset, mode)
    IN
    IF split.status = "raised" THEN GRaised(split.exc, TRUE, split)
    ELSE IF ~tl.ok THEN GRaised(tl.exc, TRUE, split)
    ELSE IF ~tu.ok THEN GRaised(tu.exc, TRUE, split)
    ELSE [status |-> "returned", exc |-> "", loaded |-> TRUE, split |-> split,
          labeled |-> SSLDataset(dataset, split.labeled_idx, targets, tl),
          unlabeled |-> SSLDataset(dataset, split.unlabeled_idx, targets, tu)]

----------------------------------------------------------------------------
(* SSLDataModule                                                           *)

NoModule == [constructed |-> FALSE]

\* SSLDataModule.__init__: the eight configuration fields; the three
\* dataset attributes are not assigned.
SSLDataModule_init(dataset, mu, mode, num_labeled, batch_size, eval_step, expand_labels) ==
    [constructed |-> TRUE, data_path |-> "./data", dataset |-> dataset,
     mu |-> mu, mode |-> mode, num_labeled |-> num_labeled,
     batch_size |-> batch_size, eval_step |-> eval_step,
     expand_labels |-> expand_labels,
     test_dataset |-> Unset, train_labeled_dataset |-> Unset,
     train_unlabeled_dataset |-> Unset]

\* prepare_data: self after the call (its assignments up to the failure,
\* if any) and how the call ended.
prepare_data(self, rng) ==
    IF self.dataset \notin SupportedDatasets
    THEN [self |-> self, status |-> "raised", exc |-> "KeyError"]
    ELSE
    LET t == TransformSSL_init(self.dataset, "test")
    IN
    IF ~t.ok THEN [self |-> self, status |-> "raised", exc |-> t.exc]
    ELSE
    LET s1 == [self EXCEPT !.test_dataset = BaseDataset(self.dataset, FALSE, t)]
        g == get_train_dataset(self.dataset, self.mode, self.num_labeled,
                 self.batch_size, self.eval_step, self.expand_labels, rng)
    IN
    IF g.status = "raised"
    THEN [self |-> s1, status |-> "raised", exc |-> g.exc]
    ELSE [self |-> [s1 EXCEPT !.train_labeled_dataset = g.labeled,
                              !.train_unlabeled_dataset = g.unlabeled],
          status |-> "returned", exc |-> ""]

\* DataLoader(dataset, batch_size=batch_size, drop_last=drop_last)
DataLoader(dataset, batch_size, drop_last) ==
    [dataset |-> dataset, batch_size |-> batch_size, drop_last |-> drop_last]

\* the full batches a loader with drop_last yields over n entries
FullBatches(n, batch_size) == n \div batch_size

NoLoaders == [labeled |-> DataLoader(Unset, 0, FALSE)]

\* the unlabeled loader built without the factor mu
train_dataloader_SameBatch(self) ==
    IF ~self.train_labeled_dataset.set \/ ~self.train_unlabeled_dataset.set
    THEN [status |-> "raised", exc |-> "AttributeError", ret |-> NoLoaders]
    ELSE [status |-> "returned", exc |-> "",
          ret |-> [labeled |-> DataLoader(self.train_labeled_dataset,
                                   self.batch_size, TRUE),
                   unlabeled |-> DataLoader(self.train_unlabeled_dataset,
                                     self.batch_size, TRUE)]]

\* train_dataloader: reading a dataset attribute that was never assigned
\* raises AttributeError.
train_dataloader(self) ==
    IF ~self.train_labeled_dataset.set \/ ~self.train_unlabeled_dataset.set
    THEN [status |-> "raised", exc |-> "AttributeError", ret |-> NoLoaders]
    ELSE [status |-> "returned", exc |-> "",
          ret |-> [labeled |-> DataLoader(self.train_labeled_dataset,
                                   self.batch_size, TRUE),
                   unlabeled |-> DataLoader(self.train_unlabeled_dataset,
                                     self.batch_size * self.mu, TRUE)]]

val_dataloader(self) ==
    IF ~self.test_dataset.set
    THEN [status |-> "raised", exc |-> "AttributeError", ret |-> NoLoaders]
    ELSE [status |-> "returned", exc |-> "",
          ret |-> [labeled |-> DataLoader(self.test_dataset, self.batch_size, FALSE)]]

----------------------------------------------------------------------------
(* The inputs the calls are made with.                                     *)

\* n labels with the classes interleaved: label j % num_classes at index j
Interleaved(num_classes, n) == [j \in 1..n |-> (j - 1) % num_classes]

\* per_class labels of class 0, then per_class of class 1, and so on
Blocked(num_classes, per_class) ==
    [j \in 1..(num_classes * per_class) |-> (j - 1) \div per_class]

\* Label arrays with 1..MaxPerClass samples of every class, in two orders,
\* and the interleaved ones with the last class one sample short.
LabelArrays(num_classes) ==
    {Interleaved(num_classes, num_classes * p - d) :
         p \in 1..MaxPerClass, d \in {0, 1}}
    \cup {Blocked(num_classes, p) : p \in 1..MaxPerClass}

\* Every multiple of num_classes up to MaxPerClass per class, and the
\* budget one above it
Budgets(num_classes) ==
    {q * num_classes + r : q \in 0..MaxPerClass, r \in {0, 1}}

\* what the names of Datasets hold as classes; the unsupported name is
\* called with arrays over ten classes
ClassesOf(dataset) ==
    IF dataset = "cifar100" THEN Cifar100Classes ELSE Cifar10Classes

EvalSteps == {0, 1, MaxEvalStep}
BatchSizes == {0, 1, MaxBatch}
Seeds == 0..MaxSeed
Mus == 1..MaxMu
Images == 1..MaxImage

----------------------------------------------------------------------------
(* The state machine.  A behaviour is one interpreter session: either a    *)
(* single call of a module-level function or of a transform, or the        *)
(* module's __main__ block, or the construction of an SSLDataModule        *)
(* followed by calls of its methods in any order.                          *)
(*   dm        the SSLDataModule of the session, NoModule before it exists *)
(*   prepared  prepare_data has returned on dm                             *)
(*   call      the last call: its arguments and how it ended               *)

NoCall == [op |-> "none"]

Init ==
    /\ dm = NoModule
    /\ prepared = FALSE
    /\ call = NoCall

Idle == call.op = "none" /\ ~dm.constructed

CallXUSplit ==
    /\ Idle
    /\ \E dataset \in Datasets, expand_labels \in BOOLEAN, seed \in Seeds,
          eval_step \in EvalSteps, batch_size \in BatchSizes :
         \E labels \in LabelArrays(ClassesOf(dataset)),
            num_labeled \in Budgets(ClassesOf(dataset)) :
           call' = [op |-> "x_u_split", dataset |-> dataset, labels |-> labels,
                    num_labeled |-> num_labeled, eval_step |-> eval_step,
                    expand_labels |-> expand_labels, batch_size |-> batch_size,
                    res |-> x_u_split(dataset, labels, num_labeled, eval_step,
                                      expand_labels, batch_size, seed)]
    /\ UNCHANGED <<dm, prepared>>

CallGetTrainDataset ==
    /\ Idle
    /\ \E dataset \in Datasets, mode \in Modes, expand_labels \in BOOLEAN,
          seed \in Seeds, eval_step \in EvalSteps, batch_size \in BatchSizes :
         \E num_labeled \in Budgets(ClassesOf(dataset)) :
           call' = [op |-> "get_train_dataset", dataset |-> dataset, mode |-> mode,
                    num_labeled |-> num_labeled, eval_step |-> eval_step,
                    expand_labels |-> expand_labels, batch_size |-> batch_size,
                    res |-> get_train_dataset(dataset, mode, num_labeled,
                                batch_size, eval_step, expand_labels, seed)]
    /\ UNCHANGED <<dm, prepared>>

CallTransform ==
    /\ Idle
    /\ \E mode \in Modes, x \in Images :
         call' = [op |-> "TransformSSL.__call__", mode |-> mode, x |-> x,
                  res |-> TransformSSL_call(mode, x)]
    /\ UNCHANGED <<dm, prepared>>

Construct ==
    /\ Idle
    /\ \E dataset \in Datasets, mu \in Mus, mode \in Modes,
          expand_labels \in BOOLEAN, eval_step \in EvalSteps,
          batch_size \in BatchSizes \ {0} :
         \E num_labeled \in Budgets(ClassesOf(dataset)) :
           dm' = SSLDataModule_init(dataset, mu, mode, num_labeled, batch_size,
                                    eval_step, expand_labels)
    /\ call' = [op |-> "SSLDataModule"]
    /\ UNCHANGED prepared

PrepareData ==
    /\ dm.constructed
    /\ call.op # "__main__"
    /\ \E seed \in Seeds :
         LET r == prepare_data(dm, seed)
         IN  /\ dm' = r.self
             /\ prepared' = (prepared \/ r.status = "returned")
             /\ call' = [op |-> "prepare_data", status |-> r.status, exc |-> r.exc]

TrainDataloader ==
    /\ dm.constructed
    /\ call.op # "__main__"
    /\ call' = [op |-> "train_dataloader", prepared |-> prepared,
                res |-> train_dataloader(dm)]
    /\ UNCHANGED <<dm, prepared>>

ValDataloader ==
    /\ dm.constructed
    /\ call.op # "__main__"
    /\ call' = [op |-> "val_dataloader", prepared |-> prepared,
                res |-> val_dataloader(dm)]
    /\ UNCHANGED <<dm, prepared>>

\* the __main__ block: SSLDataModule("./data", "cifar100") with the default
\* arguments, then train_dataloader; the print is reached only if that
\* call returns
Main ==
    /\ Idle
    /\ LET d == SSLDataModule_init("cifar100", DefaultMu, "fixmatch",
                    DefaultNumLabeled, DefaultBatchSize, DefaultEvalStep, TRUE)
       IN  /\ dm' = d
           /\ call' = [op |-> "__main__", prepared |-> prepared,
                       res |-> train_dataloader(d)]
    /\ UNCHANGED prepared

Next ==
    \/ CallXUSplit
    \/ CallGetTrainDataset
    \/ CallTransform
    \/ Construct
    \/ PrepareData
    \/ TrainDataloader
    \/ ValDataloader
    \/ Main

Spec == Init /\ [][Next]_vars

----------------------------------------------------------------------------
(* Vocabulary of the properties.                                           *)

Range(seq) == {seq[p] : p \in DOMAIN seq}

Count(seq, v) == Cardinality({p \in DOMAIN seq : seq[p] = v})

\* x_u_split ran in the last call, directly or inside get_train_dataset
SplitCalled ==
    \/ call.op = "x_u_split"
    \/ call.op = "get_train_dataset" /\ call.res.loaded

Split == IF call.op = "x_u_split" THEN call.res ELSE call.res.split

SplitLabels ==
    IF call.op = "x_u_split" THEN call.labels ELSE BaseTargets(call.dataset)

SplitReturned == SplitCalled /\ Split.status = "returned"

\* the replication condition of the last call
Replicates == call.expand_labels \/ call.num_labeled < call.batch_size

\* how many of the indices in the set sampled carry label i
OfClass(sampled, labels, i) == Cardinality({j \in sampled : labels[j + 1] = i})

\* every class 0..num_classes-1 has exactly per_class of the sample's indices
EveryClassGives(per_class) ==
    LET sampled == Range(Split.sample)
        labels == SplitLabels
    IN  \A i \in 0..(ClassesOf(call.dataset) - 1) :
            OfClass(sampled, labels, i) = per_class

\* every index of the sample occurs exactly m times in the returned list
EveryIndexOccurs(m) ==
    LET returned == Split.labeled_idx
    IN  \A j \in Range(Split.sample) : Count(returned, j) = m

\* m is the ceiling of a / b, b > 0
IsCeil(m, a, b) == m * b >= a /\ (m - 1) * b < a

\* some class has fewer samples than the per-class budget
ClassTooSmall ==
    \E i \in 0..(ClassesOf(call.dataset) - 1) :
        Count(SplitLabels, i) < call.num_labeled \div ClassesOf(call.dataset)

----------------------------------------------------------------------------
(* C1 *)

\* C1, as stated: whenever x_u_split returns, the returned labeled index
\* list has exactly num_labeled entries.
C1_ReturnedCountIsBudget ==
    SplitReturned => Len(Split.labeled_idx) = call.num_labeled

\* C1, amended: whenever x_u_split returns, the sample the assertion sees
\* has exactly num_labeled entries and the returned labeled list holds
\* exactly num_labeled distinct indices; the list has num_labeled entries
\* when it is not replicated and num_labeled * ceil(batch_size * eval_step /
\* num_labeled) entries when it is.
C1_DistinctCountIsBudget ==
    SplitReturned =>
        /\ Len(Split.sample) = call.num_labeled
        /\ Cardinality(Range(Split.labeled_idx)) = call.num_labeled
        /\ Split.replicated = Replicates
        /\ IF Replicates
           THEN \E m \in 1..(call.batch_size * call.eval_step) :
                   /\ IsCeil(m, call.batch_size * call.eval_step, call.num_labeled)
                   /\ Len(Split.labeled_idx) = call.num_labeled * m
           ELSE Len(Split.labeled_idx) = call.num_labeled

C1_Witness ==
    /\ SplitReturned
    /\ Split.replicated
    /\ Len(Split.labeled_idx) >= 2 * call.num_labeled
    /\ call.num_labeled > 0

----------------------------------------------------------------------------
(* C2 *)

\* C2: whenever x_u_split returns, the unlabeled index list is 0, 1, ...,
\* len(labels) - 1 in ascending order, each index once, and every returned
\* labeled index is one of the unlabeled indices.
C2_UnlabeledCoversAll ==
    SplitReturned =>
        /\ Len(Split.unlabeled_idx) = Len(SplitLabels)
        /\ \A p \in DOMAIN Split.unlabeled_idx : Split.unlabeled_idx[p] = p - 1
        /\ Range(Split.labeled_idx) \subseteq Range(Split.unlabeled_idx)

C2_Witness ==
    /\ SplitReturned
    /\ Len(Split.labeled_idx) > 0
    /\ Len(Split.unlabeled_idx) > Cardinality(Range(Split.labeled_idx))
    /\ ~call.expand_labels

----------------------------------------------------------------------------
(* C3 *)

\* C3: the sample drawn before any replication is stratified and without
\* replacement: it holds every index once, every index is an index of
\* labels, and every class 0..num_classes-1 contributes exactly
\* num_labeled // num_classes indices carrying its label.
C3_StratifiedSample ==
    (SplitCalled /\ Split.sampled) =>
        /\ Cardinality(Range(Split.sample)) = Len(Split.sample)
        /\ Range(Split.sample) \subseteq 0..(Len(SplitLabels) - 1)
        /\ EveryClassGives(call.num_labeled \div ClassesOf(call.dataset))
        /\ Len(Split.sample) =
               ClassesOf(call.dataset) * (call.num_labeled \div ClassesOf(call.dataset))

\* a sample of two per class, drawn from classes of two
C3_Witness ==
    /\ call.op = "x_u_split"
    /\ Split.sampled
    /\ call.num_labeled \div ClassesOf(call.dataset) = 2
    /\ Len(Split.sample) = Len(call.labels)

----------------------------------------------------------------------------
(* C4 *)

\* C4: when x_u_split replicates and returns, every sampled index occurs
\* exactly ceil(batch_size * eval_step / num_labeled) times in the returned
\* labeled list and nothing else occurs in it, the list has at least
\* batch_size * eval_step entries, and a loader with drop_last yields at
\* least eval_step full batches of batch_size over it; when it does not
\* replicate, the returned list is a permutation of the sample.
C4_Replication ==
    SplitReturned =>
        /\ Range(Split.labeled_idx) = Range(Split.sample)
        /\ IF Replicates
           THEN /\ call.num_labeled > 0
                /\ \E m \in 1..(call.batch_size * call.eval_step) :
                      /\ IsCeil(m, call.batch_size * call.eval_step, call.num_labeled)
                      /\ EveryIndexOccurs(m)
                /\ Len(Split.labeled_idx) >= call.batch_size * call.eval_step
                /\ FullBatches(Len(Split.labeled_idx), call.batch_size) >= call.eval_step
           ELSE /\ EveryIndexOccurs(1)
                /\ Len(Split.labeled_idx) = Len(Split.sample)

\* three or more copies, out of their original order, more entries than
\* batch_size * eval_step
C4_Witness ==
    /\ SplitReturned
    /\ Replicates
    /\ \E j \in Range(Split.sample) : Count(Split.labeled_idx, j) >= 3
    /\ Len(Split.labeled_idx) > call.batch_size * call.eval_step
    /\ Split.labeled_idx # HStack(Split.sample, Split.num_expand_x)

----------------------------------------------------------------------------
(* C5 *)

Augs(views) == [p \in DOMAIN views |-> views[p].aug]

\* C5: TransformSSL.__call__ returns one normalized view for mode "test"
\* (the resize) and for mode "casual" (the weak augmentation), the pair
\* (weak, strong1) for "fixmatch" and the triple (weak, strong1, strong2)
\* for "comatch" and for every other mode; every view is a normalized view
\* of the input.
C5_ViewsByMode ==
    call.op = "TransformSSL.__call__" =>
        /\ Augs(call.res.views) =
               CASE call.mode = "test" -> <<"test_transforms">>
                 [] call.mode = "casual" -> <<"weak">>
                 [] call.mode = "fixmatch" -> <<"weak", "strong1">>
                 [] OTHER -> <<"weak", "strong1", "strong2">>
        /\ call.res.tuple = (call.mode \notin {"test", "casual"})
        /\ \A p \in DOMAIN call.res.views :
               call.res.views[p].normalized /\ call.res.views[p].of = call.x

C5_Witness ==
    /\ call.op = "TransformSSL.__call__"
    /\ call.mode = "fixmatch"
    /\ Len(call.res.views) = 2

----------------------------------------------------------------------------
(* C6 *)

\* a budget get_train_dataset can serve: a positive multiple of the number
\* of classes that every class of the training set can fill
ValidBudget(dataset, num_labeled) ==
    /\ num_labeled > 0
    /\ num_labeled % ClassesOf(dataset) = 0
    /\ num_labeled <= Len(BaseTargets(dataset))

\* C6: for a supported dataset name and a valid label budget prepare_data
\* runs to completion, and afterwards test_dataset, train_labeled_dataset
\* and train_unlabeled_dataset are all set.
C6_PrepareDataCompletes ==
    (/\ call.op = "prepare_data"
     /\ dm.dataset \in SupportedDatasets
     /\ dm.mode \in AcceptedModes
     /\ ValidBudget(dm.dataset, dm.num_labeled)
     /\ dm.batch_size * dm.eval_step > 0)
    => /\ call.status = "returned"
       /\ dm.test_dataset.set
       /\ dm.train_labeled_dataset.set
       /\ dm.train_unlabeled_dataset.set

----------------------------------------------------------------------------
(* C7 *)

\* C7: a dataset name other than "cifar10"/"cifar100" makes x_u_split,
\* get_train_dataset and prepare_data raise, and a class with fewer than
\* num_labeled // num_classes samples makes x_u_split raise; in each case
\* no index list and no dataset is returned or stored.
C7_FailuresPropagate ==
    /\ (call.op = "x_u_split" /\ call.dataset \notin SupportedDatasets) =>
           /\ call.res.status = "raised"
           /\ call.res.exc = "UnboundLocalError"
           /\ call.res.labeled_idx = <<>> /\ call.res.unlabeled_idx = <<>>
    /\ (call.op = "get_train_dataset" /\ call.dataset \notin SupportedDatasets) =>
           /\ call.res.status = "raised"
           /\ call.res.exc =
                  IF call.mode \in AcceptedModes THEN "KeyError" ELSE "AssertionError"
           /\ ~call.res.loaded
           /\ ~call.res.labeled.set /\ ~call.res.unlabeled.set
    /\ (call.op = "prepare_data" /\ dm.dataset \notin SupportedDatasets) =>
           /\ call.status = "raised"
           /\ call.exc = "KeyError"
           /\ ~dm.test_dataset.set
           /\ ~dm.train_labeled_dataset.set /\ ~dm.train_unlabeled_dataset.set
    /\ (/\ SplitCalled
        /\ call.dataset \in SupportedDatasets
        /\ ClassTooSmall) =>
           /\ Split.status = "raised"
           /\ Split.exc = "ValueError"
           /\ ~Split.sampled
           /\ Split.labeled_idx = <<>> /\ Split.unlabeled_idx = <<>>

\* a budget of two per class over labels whose last class has one sample
C7_Witness ==
    /\ call.op = "x_u_split"
    /\ call.dataset \in SupportedDatasets
    /\ ClassTooSmall
    /\ call.num_labeled % ClassesOf(call.dataset) = 0
    /\ Len(call.labels) = call.num_labeled - 1
    /\ call.res.status = "raised"

----------------------------------------------------------------------------
(* C8 *)

\* C8: when the sampling loop of x_u_split completes, the assertion holds
\* exactly when num_labeled is a multiple of num_classes; for every other
\* budget every class has contributed num_labeled // num_classes indices,
\* the call raises AssertionError, and nothing is replicated or returned.
C8_AssertionIffMultiple ==
    (SplitCalled /\ Split.sampled) =>
        /\ ~(Split.status = "raised" /\ Split.exc = "AssertionError")
               <=> (call.num_labeled % ClassesOf(call.dataset) = 0)
        /\ (call.num_labeled % ClassesOf(call.dataset) # 0) =>
               /\ EveryClassGives(call.num_labeled \div ClassesOf(call.dataset))
               /\ Len(Split.sample) # call.num_labeled
               /\ Split.status = "raised"
               /\ ~Split.replicated
               /\ Split.labeled_idx = <<>> /\ Split.unlabeled_idx = <<>>

\* a budget one above a multiple: every class gave one index, and the
\* assertion failed
C8_Witness ==
    /\ SplitCalled
    /\ Split.sampled
    /\ call.num_labeled = ClassesOf(call.dataset) + 1
    /\ Len(Split.sample) = ClassesOf(call.dataset)
    /\ Split.exc = "AssertionError"

----------------------------------------------------------------------------
(* C9 *)

\* dm as a completed prepare_data leaves it, over the given index lists
AsPrepared(self, labeled_idx, unlabeled_idx) ==
    [self EXCEPT
       !.test_dataset = BaseDataset(self.dataset, FALSE, "test"),
       !.train_labeled_dataset =
           SSLDataset(self.dataset, labeled_idx, unlabeled_idx, "casual"),
       !.train_unlabeled_dataset =
           SSLDataset(self.dataset, unlabeled_idx, unlabeled_idx, self.mode)]

\* C9: a dataset attribute of the module is set only once prepare_data has
\* returned; a train_dataloader or val_dataloader call, or the __main__
\* block, on a module on which prepare_data has not returned raises
\* AttributeError; and on a module whose datasets are set train_dataloader
\* returns a mapping with exactly the keys "labeled" and "unlabeled" whose
\* unlabeled loader has batch size batch_size * mu.
C9_DatasetsOnlyAfterPrepare ==
    /\ dm.constructed =>
           ((\/ dm.test_dataset.set
             \/ dm.train_labeled_dataset.set
             \/ dm.train_unlabeled_dataset.set) => prepared)
    /\ (/\ call.op \in {"train_dataloader", "val_dataloader", "__main__"}
        /\ ~call.prepared) =>
           /\ call.res.status = "raised"
           /\ call.res.exc = "AttributeError"
    /\ dm.constructed =>
           LET r == train_dataloader(AsPrepared(dm, <<1, 0, 1, 0>>, <<0, 1>>))
           IN  /\ r.status = "returned"
               /\ DOMAIN r.ret = {"labeled", "unlabeled"}
               /\ r.ret.labeled.batch_size = dm.batch_size
               /\ r.ret.unlabeled.batch_size = dm.batch_size * dm.mu
               /\ r.ret.labeled.drop_last /\ r.ret.unlabeled.drop_last

\* the __main__ block has run: train_dataloader on the freshly built
\* default module raised
C9_Witness ==
    /\ call.op = "__main__"
    /\ ~prepared
    /\ dm.mu = DefaultMu
    /\ call.res.status = "raised"

----------------------------------------------------------------------------
(* C10 *)

\* C10: get_train_dataset rejects every mode other than "fixmatch" and
\* "comatch" by its assertion, before the dataset is loaded or split; for
\* an accepted mode, a supported dataset and a split that returns, it
\* returns a labeled dataset wrapped with the single-view "casual"
\* transform and an unlabeled dataset wrapped with the requested mode,
\* which yields two views for "fixmatch" and three for "comatch".
C10_TrainDatasetTransforms ==
    call.op = "get_train_dataset" =>
        /\ call.mode \notin AcceptedModes =>
               /\ call.res.status = "raised"
               /\ call.res.exc = "AssertionError"
               /\ ~call.res.loaded
        /\ (call.mode \in AcceptedModes /\ call.res.loaded
              /\ call.res.split.status = "returned") =>
               /\ call.res.status = "returned"
               /\ call.res.labeled.transform.mode = "casual"
               /\ Len(TransformSSL_call(call.res.labeled.transform.mode, 1).views) = 1
               /\ call.res.unlabeled.transform.mode = call.mode
               /\ Len(TransformSSL_call(call.res.unlabeled.transform.mode, 1).views) =
                      IF call.mode = "fixmatch" THEN 2 ELSE 3

====
